---- MODULE Spec2Model ----
(***************************************************************************)
(* nostl::vector<T, N> (the DynamicArray of the specification) as a state  *)
(* machine: a heap of raw blocks, two vector objects "a" and "b" of the    *)
(* same instantiation vector<T, N>, and one action per public operation.   *)
(* Source: nostl/include/nostl/vector.h.                                   *)
(***************************************************************************)
EXTENDS Integers, Sequences, FiniteSets, TLC

(***************************************************************************)
(* Bounds of the model.                                                    *)
(***************************************************************************)
MaxBlocks == 3      \* raw blocks that can be allocated at the same time
MaxCap == 3         \* largest capacity a resize may install
MaxLen == 3         \* largest m_size reached by appending
MaxVal == 2         \* element values are 1..MaxVal
MaxHint == 1        \* template parameter N ranges over 0..MaxHint
MaxInit == 2        \* longest initializer list / std::vector argument
MaxPairLen == 2     \* largest m_size and m_capacity while two vectors are in play
MaxSmallCap == 40    \* growth is computed for the capacities 0..MaxSmallCap,
MaxWindow == 12      \* 1000 - MaxWindow .. 1000 + MaxWindow
LargeCap == 3813000  \* and LargeCap .. LargeCap + MaxWindow

VARIABLES
    heap,       \* block id -> [live, slots]: the raw blocks of ::operator new
    arr,        \* vector object -> [alive, m_data, m_size, m_capacity, m_mem_policy]
    status,     \* "running", "assert_failed" after a failed assertion, or "aborted"
                \* once undefined behaviour has terminated the process
    op,         \* the last operation
    N,          \* template parameter N (initial capacity) of the instantiation
    scalar,     \* std::is_scalar<T>::value of the instantiation
    farr,       \* nostl::array object -> [alive, m_data]: the N slots it holds
    sizeof_T,   \* sizeof (T) of the instantiation, in bytes
    argv,       \* the command line of the test harness after argv[0]
    harness     \* what parser::parse and main did:
                \* [done, shown, stream, exited, exit_status, run_test, called]

vars == <<heap, arr, status, op, N, scalar, farr, sizeof_T, argv, harness>>

Arrs == {"a", "b"}
FArrs == {"a1", "a2"}
Val == 1..MaxVal
Hints == 0..MaxHint

NULL == 0           \* nullptr
NoVal == 0          \* content of a slot that holds no value
Moved == -1         \* content of a moved-from non-scalar object
Garbage == -2       \* what a read outside every allocated block yields

Max(x, y) == IF x >= y THEN x ELSE y
Min(x, y) == IF x <= y THEN x ELSE y

(***************************************************************************)
(* policy_flags: the two enumerators and the operators used on them.       *)
(***************************************************************************)
NORMAL == 127
RESTRICTIVE == 128

\* operator~ : bitwise NOT of the underlying int
PolicyNot(p) == (0 - p) - 1

\* (m_mem_policy & NORMAL) != 0 : some of the low seven bits is set
plcy_normal(p) == (p % 128) # 0

\* (m_mem_policy & RESTRICTIVE) != 0 : bit seven is set
plcy_restrictive(p) == ((p % 256) \div 128) = 1

(***************************************************************************)
(* The heap.                                                               *)
(***************************************************************************)
Blocks == 1..MaxBlocks
RawSlot == [st |-> "raw", val |-> NoVal]
FreeBlock == [live |-> FALSE, slots |-> <<>>, bytes |-> 0]

HasFree(h) == \E p \in Blocks : ~h[p].live

\* the address ::operator new returns: a block distinct from every live one
NewPtr(h) == CHOOSE p \in Blocks : ~h[p].live /\ \A q \in 1..(p - 1) : h[q].live

\* ::operator new(size): a block of size bytes, which holds size / sizeof (T)
\* slots of raw memory
operator_new(W, size) ==
    [W EXCEPT !.heap[NewPtr(W.heap)] =
        [live |-> TRUE, slots |-> [i \in 1..(size \div sizeof_T) |-> RawSlot],
         bytes |-> size]]

\* ::operator delete(p, size): releases the block; deleting nullptr does nothing.
\* The size must be the one the block was allocated with.
operator_delete(W, p, size) ==
    IF p = NULL THEN W
    ELSE IF W.heap[p].live
    THEN [W EXCEPT !.heap[p] = FreeBlock,
                   !.fault = (IF \E i \in 1..Len(W.heap[p].slots) :
                                     W.heap[p].slots[i].st = "live"
                              THEN @ \cup {"release_live"} ELSE @)
                             \cup (IF size # W.heap[p].bytes
                                   THEN {"size_mismatch"} ELSE {})]
    ELSE [W EXCEPT !.fault = @ \cup {"double_free"}]

\* slot i (from 0) of block p lies inside an allocated block
InBlock(h, p, i) == p # NULL /\ h[p].live /\ i < Len(h[p].slots)

ReadSlot(h, p, i) ==
    IF InBlock(h, p, i) THEN h[p].slots[i + 1] ELSE [st |-> "raw", val |-> Garbage]

\* new(&p[i]) T(x): starts the lifetime of an element with value x in slot i
Construct(W, p, i, x) ==
    IF InBlock(W.heap, p, i)
    THEN [W EXCEPT !.heap[p].slots[i + 1] = [st |-> "live", val |-> x],
                   !.fault = IF W.heap[p].slots[i + 1].st = "live"
                             THEN @ \cup {"construct_over_live"} ELSE @]
    ELSE [W EXCEPT !.fault = @ \cup {"out_of_block"}]

\* p[i].~T(): ends the lifetime of the element in slot i
Destroy(W, p, i) ==
    IF InBlock(W.heap, p, i) /\ W.heap[p].slots[i + 1].st = "live"
    THEN [W EXCEPT !.heap[p].slots[i + 1] = RawSlot]
    ELSE [W EXCEPT !.fault = @ \cup {"destroy_dead"}]

\* assert(condition) with a false condition: the macro of <cassert> reports the
\* failed expression and calls std::abort(), so nothing after it is executed
AssertFailed(W) == [W EXCEPT !.fault = @ \cup {"assertion"}]

\* an lvalue-to-rvalue read of p[i]
Load(W, p, i) ==
    IF InBlock(W.heap, p, i) /\ W.heap[p].slots[i + 1].st = "live"
    THEN W
    ELSE [W EXCEPT !.fault = @ \cup {"read_dead"}]

\* what is left in the source of a move: a scalar keeps its value
AfterMove(slot) == IF scalar THEN slot ELSE [slot EXCEPT !.val = Moved]

MarkMoved(W, p, i) ==
    IF InBlock(W.heap, p, i) THEN [W EXCEPT !.heap[p].slots[i + 1] = AfterMove(@)] ELSE W

\* new(&dst[i]) T(std::move(src[j]))
MoveConstruct(W, dst, i, src, j) ==
    MarkMoved(Construct(W, dst, i, ReadSlot(W.heap, src, j).val), src, j)

\* p[i] = std::move(p[j]): assignment, the target is expected to hold an element
MoveAssign(W, p, i, j) ==
    LET x == ReadSlot(W.heap, p, j).val
        W1 == IF InBlock(W.heap, p, i)
              THEN [W EXCEPT !.heap[p].slots[i + 1] = [st |-> "live", val |-> x],
                             !.fault = IF W.heap[p].slots[i + 1].st = "live"
                                       THEN @ ELSE @ \cup {"assign_dead"}]
              ELSE [W EXCEPT !.fault = @ \cup {"out_of_block"}]
    IN MarkMoved(W1, p, j)

\* p[i] = x through the reference operator[] returns
Assign(W, p, i, x) ==
    IF InBlock(W.heap, p, i)
    THEN [W EXCEPT !.heap[p].slots[i + 1] = [st |-> "live", val |-> x],
                   !.fault = IF W.heap[p].slots[i + 1].st = "live"
                             THEN @ ELSE @ \cup {"assign_dead"}]
    ELSE [W EXCEPT !.fault = @ \cup {"out_of_block"}]

(***************************************************************************)
(* Member functions.  W is the world an operation works on: the heap, the  *)
(* vector objects and the faults raised so far; v names *this.             *)
(***************************************************************************)
World == [heap |-> heap, arr |-> arr, fault |-> {}]

RECURSIVE DestroyRange(_, _, _, _)
\* for (i = from; i < to; i++) p[i].~T();
DestroyRange(W, p, from, to) ==
    IF from >= to THEN W ELSE DestroyRange(Destroy(W, p, from), p, from + 1, to)

RECURSIVE MoveRange(_, _, _, _, _)
\* for (i = from; i < to; i++) new(&dst[i]) T(std::move(src[i]));
MoveRange(W, dst, src, from, to) ==
    IF from >= to THEN W
    ELSE MoveRange(MoveConstruct(W, dst, from, src, from), dst, src, from + 1, to)

RECURSIVE CopyRange(_, _, _, _, _)
\* std::memcpy of the elements [from, to), or new(&dst[i]) T(src[i]) for each
CopyRange(W, dst, src, from, to) ==
    IF from >= to THEN W
    ELSE CopyRange(Construct(W, dst, from, ReadSlot(W.heap, src, from).val),
                   dst, src, from + 1, to)

RECURSIVE CopySeq(_, _, _, _)
\* the same from a std::vector or an initializer list holding s
CopySeq(W, dst, s, from) ==
    IF from >= Len(s) THEN W
    ELSE CopySeq(Construct(W, dst, from, s[from + 1]), dst, s, from + 1)

\* the constructors' member initializer list
InitMembers(W, v, policy) ==
    [W EXCEPT !.arr[v] = [alive |-> TRUE, m_data |-> NULL, m_size |-> 0,
                          m_capacity |-> N, m_mem_policy |-> policy]]

\* vector::clear
clear(W, v) ==
    [DestroyRange(W, W.arr[v].m_data, 0, W.arr[v].m_size) EXCEPT !.arr[v].m_size = 0]

\* a faulty resize: the length is not truncated to the new capacity
resize_KeepsLength(W, v, new_capacity) ==
    LET new_block == NewPtr(W.heap)
        old == W.arr[v].m_data
        originalSize == W.arr[v].m_size
        W1 == operator_new(W, sizeof_T * new_capacity)
        W3 == IF scalar
              THEN IF old # NULL
                   THEN CopyRange(W1, new_block, old, 0, Min(originalSize, new_capacity))
                   ELSE W1
              ELSE MoveRange(W1, new_block, old, 0, Min(originalSize, new_capacity))
        W4 == DestroyRange(W3, old, 0, originalSize)
        W5 == operator_delete(W4, old, W4.arr[v].m_capacity)
    IN [W5 EXCEPT !.arr[v].m_data = new_block, !.arr[v].m_capacity = new_capacity]

\* vector::resize
resize(W, v, new_capacity) ==
    LET new_block == NewPtr(W.heap)
        old == W.arr[v].m_data
        originalSize == W.arr[v].m_size
        W1 == operator_new(W, sizeof_T * new_capacity)
        W2 == IF new_capacity < originalSize
              THEN [W1 EXCEPT !.arr[v].m_size = new_capacity] ELSE W1
        W3 == IF scalar
              THEN IF old # NULL
                   THEN CopyRange(W2, new_block, old, 0, W2.arr[v].m_size) ELSE W2
              ELSE MoveRange(W2, new_block, old, 0, W2.arr[v].m_size)
        W4 == DestroyRange(W3, old, 0, originalSize)
        W5 == operator_delete(W4, old, W4.arr[v].m_capacity)
    IN [W5 EXCEPT !.arr[v].m_data = new_block, !.arr[v].m_capacity = new_capacity]

\* a faulty shrink_to_fit: one spare slot is kept
shrink_to_fit_KeepsSpare(W, v) == resize(W, v, W.arr[v].m_size + 1)

\* vector::shrink_to_fit
shrink_to_fit(W, v) == resize(W, v, W.arr[v].m_size)

\* float arithmetic of expand_to_fit.  A float has a 24 bit significand; the
\* factors are 1.1f = Float_1_1 / 2^23 and 1.5f = Float_1_5 / 2^23.
Float_1_1 == 9227469
Float_1_5 == 12582912

\* the number of bits of n > 0
BitLen(n) == CHOOSE k \in 1..31 : 2^(k - 1) <= n /\ (k = 31 \/ n < 2^k)

\* c * m for c, m < 2^24 as [hi, lo] with c * m = hi * 2^24 + lo, lo < 2^24
Mul24(c, m) ==
    LET c1 == c \div 4096
        c0 == c % 4096
        m1 == m \div 4096
        m0 == m % 4096
        mid == c1 * m0 + c0 * m1
        low == c0 * m0 + (mid % 4096) * 4096
    IN [hi |-> c1 * m1 + mid \div 4096 + low \div 2^24, lo |-> low % 2^24]

\* std::ceil(c * factor) in float: the product c * m / 2^23 is rounded to 24
\* significant bits (to nearest, ties to even) and then rounded up to an integer
CeilFloatMul(c, m) ==
    LET P == Mul24(c, m)
    IN IF P.hi = 0 THEN (P.lo + 2^23 - 1) \div 2^23
       ELSE LET k == BitLen(P.hi)
                q == P.hi * 2^(24 - k) + P.lo \div 2^k
                rem == P.lo % 2^k
                half == 2^(k - 1)
                R == IF rem > half \/ (rem = half /\ q % 2 = 1) THEN q + 1 ELSE q
            IN IF k <= 23 THEN (R + 2^(23 - k) - 1) \div 2^(23 - k) ELSE 2 * R

\* vector::expand_to_fit (the capacity converts to float exactly below 2^24)
expand_to_fit(W, v) ==
    LET c == W.arr[v].m_capacity
        factor == IF plcy_restrictive(W.arr[v].m_mem_policy) \/ c >= 1000
                  THEN Float_1_1 ELSE Float_1_5
    IN CeilFloatMul(c, factor)

\* a faulty growth step: reallocates on every append
GrowIfFull_Always(W, v) ==
    resize(W, v, Max(W.arr[v].m_capacity, expand_to_fit(W, v)))

\* the capacity check shared by push_back and emplace_back
GrowIfFull(W, v) ==
    IF W.arr[v].m_size = W.arr[v].m_capacity THEN resize(W, v, expand_to_fit(W, v)) ELSE W

\* new(&m_data[m_size++]) T(...)
ConstructAtEnd(W, v, x) ==
    [Construct(W, W.arr[v].m_data, W.arr[v].m_size, x) EXCEPT !.arr[v].m_size = @ + 1]

\* vector::push_back(const T&)
push_back(W, v, x) == ConstructAtEnd(GrowIfFull(W, v), v, x)

\* vector::push_back(T&&)
push_back_move(W, v, x) == ConstructAtEnd(GrowIfFull(W, v), v, x)

\* vector::emplace_back
emplace_back(W, v, x) == ConstructAtEnd(GrowIfFull(W, v), v, x)

\* vector::operator+=(const T&) and operator+=(T&&)
plus_assign(W, v, x) == push_back(W, v, x)

\* a faulty pop_back: the storage is shrunk to the new length
pop_back_Shrinks(W, v) ==
    IF W.arr[v].m_size # 0
    THEN LET W1 == Destroy(W, W.arr[v].m_data, W.arr[v].m_size - 1)
             W2 == [W1 EXCEPT !.arr[v].m_size = @ - 1]
         IN resize(W2, v, W2.arr[v].m_size)
    ELSE W

\* vector::pop_back
pop_back(W, v) ==
    IF W.arr[v].m_size # 0
    THEN [Destroy(W, W.arr[v].m_data, W.arr[v].m_size - 1) EXCEPT !.arr[v].m_size = @ - 1]
    ELSE W

RECURSIVE ShiftDown(_, _, _, _)
\* for (i = from; i < to; i++) p[i] = std::move(p[i + 1]);
ShiftDown(W, p, from, to) ==
    IF from >= to THEN W ELSE ShiftDown(MoveAssign(W, p, from, from + 1), p, from + 1, to)

\* vector::erase without its assertion
erase_Unchecked(W, v, idx) ==
    LET W1 == Destroy(W, W.arr[v].m_data, idx)
        W2 == ShiftDown(W1, W.arr[v].m_data, idx, W.arr[v].m_size - 1)
    IN pop_back(W2, v)

\* vector::erase
erase(W, v, idx) ==
    IF idx < W.arr[v].m_size
    THEN LET W1 == Destroy(W, W.arr[v].m_data, idx)
             W2 == ShiftDown(W1, W.arr[v].m_data, idx, W.arr[v].m_size - 1)
         IN pop_back(W2, v)
    ELSE AssertFailed(W)

RECURSIVE EmplaceAll(_, _, _, _)
\* the constructors' loops of emplace_back over s
EmplaceAll(W, v, s, from) ==
    IF from >= Len(s) THEN W
    ELSE EmplaceAll(emplace_back(W, v, s[from + 1]), v, s, from + 1)

\* a faulty default constructor: the hint alone sizes the first block
ctor_default_HintOnly(W, v) == resize(InitMembers(W, v, NORMAL), v, N)

\* vector::vector()
ctor_default(W, v) == resize(InitMembers(W, v, NORMAL), v, Max(N, 1))

\* vector::vector(size_t count, const T& value)
ctor_count(W, v, count, value) ==
    EmplaceAll(resize(InitMembers(W, v, NORMAL), v, Max(N, count)),
               v, [i \in 1..count |-> value], 0)

\* vector::vector(const std::initializer_list<T>&)
ctor_ilist(W, v, ilist) ==
    EmplaceAll(resize(InitMembers(W, v, NORMAL), v, Max(N, Len(ilist))), v, ilist, 0)

\* the copy loop shared by the copy constructor and copy assignment
CopyFrom(W, v, o) ==
    LET dst == W.arr[v].m_data
        src == W.arr[o].m_data
        W1 == IF scalar
              THEN IF dst # NULL /\ src # NULL
                   THEN CopyRange(W, dst, src, 0, W.arr[o].m_size) ELSE W
              ELSE CopyRange(W, dst, src, 0, W.arr[o].m_size)
    IN [W1 EXCEPT !.arr[v].m_size = W1.arr[o].m_size]

\* the same from a std::vector holding s (data() of an empty one is null)
CopyFromStd(W, v, s) ==
    LET dst == W.arr[v].m_data
        W1 == IF scalar
              THEN IF dst # NULL /\ Len(s) > 0 THEN CopySeq(W, dst, s, 0) ELSE W
              ELSE CopySeq(W, dst, s, 0)
    IN [W1 EXCEPT !.arr[v].m_size = Len(s)]

\* a faulty copy constructor: a member-wise copy that shares the source's block
ctor_copy_Shallow(W, v, o) ==
    [W EXCEPT !.arr[v] = [W.arr[o] EXCEPT !.alive = TRUE]]

\* vector::vector(const vector&)
ctor_copy(W, v, o) ==
    LET W1 == InitMembers(W, v, W.arr[o].m_mem_policy)
        W2 == resize(W1, v, Max(N, W1.arr[o].m_size))
    IN CopyFrom(W2, v, o)

\* vector::vector(const std::vector<T>&)
ctor_std(W, v, s) ==
    CopyFromStd(resize(InitMembers(W, v, NORMAL), v, Max(N, Len(s))), v, s)

\* a faulty reset of a moved-from object: the capacity is left as it was
EmptyState_KeepsCapacity(W, o, policy) ==
    [W EXCEPT !.arr[o].m_data = NULL, !.arr[o].m_size = 0,
              !.arr[o].m_mem_policy = policy]

\* what a moved-from vector is left with
EmptyState(W, o, policy) ==
    [W EXCEPT !.arr[o].m_data = NULL, !.arr[o].m_size = 0,
              !.arr[o].m_capacity = 0, !.arr[o].m_mem_policy = policy]

\* vector::vector(vector&&)
ctor_move(W, v, o) ==
    LET W1 == [W EXCEPT !.arr[v] = [W.arr[o] EXCEPT !.alive = TRUE]]
    IN EmptyState(W1, o, W1.arr[o].m_mem_policy)

\* vector::~vector
dtor(W, v) ==
    LET W1 == clear(W, v)
        W2 == operator_delete(W1, W1.arr[v].m_data, W1.arr[v].m_capacity)
    IN [EmptyState(W2, v, NORMAL) EXCEPT !.arr[v].alive = FALSE]

\* a faulty copy assignment: the storage is sized to the source only, the
\* capacity hint N is ignored
copy_assign_NoHint(W, v, o) ==
    LET W1 == [W EXCEPT !.arr[v].m_mem_policy = W.arr[o].m_mem_policy]
        W2 == clear(W1, v)
        W3 == resize(W2, v, W2.arr[o].m_size)
    IN CopyFrom(W3, v, o)

\* vector::operator=(const vector&)
copy_assign(W, v, o) ==
    LET W1 == [W EXCEPT !.arr[v].m_mem_policy = W.arr[o].m_mem_policy]
        W2 == clear(W1, v)
        W3 == resize(W2, v, Max(N, W2.arr[o].m_size))
    IN CopyFrom(W3, v, o)

\* vector::operator=(const std::vector<T>&)
copy_assign_std(W, v, s) ==
    CopyFromStd(resize(clear(W, v), v, Max(N, Len(s))), v, s)

\* a faulty move assignment: the source's capacity is not adopted
move_assign_KeepsCapacity(W, v, o) ==
    LET W1 == clear(W, v)
        W2 == resize(W1, v, Max(N, W1.arr[o].m_size))
        W3 == [W2 EXCEPT !.arr[v].m_data = W2.arr[o].m_data]
        W4 == [W3 EXCEPT !.arr[v].m_size = W3.arr[o].m_size]
        W6 == [W4 EXCEPT !.arr[v].m_mem_policy = W4.arr[o].m_mem_policy]
    IN EmptyState(W6, o, NORMAL)

\* vector::operator=(vector&&)
move_assign(W, v, o) ==
    LET W1 == clear(W, v)
        W2 == resize(W1, v, Max(N, W1.arr[o].m_size))
        W3 == [W2 EXCEPT !.arr[v].m_data = W2.arr[o].m_data]
        W4 == [W3 EXCEPT !.arr[v].m_size = W3.arr[o].m_size]
        W5 == [W4 EXCEPT !.arr[v].m_capacity = W4.arr[o].m_capacity]
        W6 == [W5 EXCEPT !.arr[v].m_mem_policy = W5.arr[o].m_mem_policy]
    IN EmptyState(W6, o, NORMAL)

\* vector::toggle_restrictive
toggle_restrictive(W, v) == [W EXCEPT !.arr[v].m_mem_policy = PolicyNot(@)]

\* vector::policy_flags(const policy&)
set_policy_flags(W, v, policy) == [W EXCEPT !.arr[v].m_mem_policy = policy]

\* vector::operator[]: the reference m_data[idx] is returned after the assertion
subscript(W, v, idx) == IF idx < W.arr[v].m_size THEN W ELSE AssertFailed(W)

\* v[idx] = x
subscript_store(W, v, idx, x) ==
    LET W1 == subscript(W, v, idx)
    IN IF "assertion" \in W1.fault THEN W1 ELSE Assign(W1, W.arr[v].m_data, idx, x)

\* x = v[idx]
subscript_load(W, v, idx) ==
    LET W1 == subscript(W, v, idx)
    IN IF "assertion" \in W1.fault THEN W1 ELSE Load(W1, W.arr[v].m_data, idx)

\* x = v.at(idx)
at(W, v, idx) ==
    IF idx < W.arr[v].m_size THEN subscript_load(W, v, idx) ELSE AssertFailed(W)

\* x = v.back()
back(W, v) ==
    subscript_load(W, v, IF W.arr[v].m_size # 0 THEN W.arr[v].m_size - 1 ELSE 0)

(***************************************************************************)
(* The state machine.                                                      *)
(***************************************************************************)
Lists == UNION {[1..n -> Val] : n \in 0..MaxInit}

\* a nostl::array object that is not constructed
NoArray == [alive |-> FALSE, m_data |-> <<>>]

\* the test harness before parser::parse has run
NotParsed == [done |-> FALSE, shown |-> "nothing", stream |-> "none",
              exited |-> FALSE, exit_status |-> 0, run_test |-> "nullptr",
              called |-> "none"]

\* no nostl::array is in play and the test harness is not started
NoArrays ==
    /\ farr = [f \in FArrs |-> NoArray]
    /\ sizeof_T = 1
    /\ argv = <<>>
    /\ harness = NotParsed

\* a vector object that is not constructed (the state the destructor leaves)
NoObject == [alive |-> FALSE, m_data |-> NULL, m_size |-> 0,
             m_capacity |-> 0, m_mem_policy |-> NORMAL]

Init ==
    /\ heap = [p \in Blocks |-> FreeBlock]
    /\ arr = [v \in Arrs |-> NoObject]
    /\ status = "running"
    /\ op = "init"
    /\ N \in Hints
    /\ scalar \in BOOLEAN
    /\ NoArrays

\* Undefined behaviour ends in one of the outcomes the build produces.  A write
\* outside the allocated block lands in the allocator's bookkeeping: the run goes
\* on or the allocator terminates the process.  Destroying or assigning to an
\* object whose lifetime has ended does nothing for a scalar T; for any other T
\* the run goes on or the double release terminates the process, and so for a
\* read of such an object.  A failed assertion always terminates the process,
\* and so does a loop that reads one position after the other without a bound:
\* it goes on until a read leaves the mapped memory.  A sized deallocation with
\* a size other than the allocated one is ignored by the default allocator and
\* ends the process under a checking allocator.
Outcomes(W) ==
    IF "assertion" \in W.fault THEN {"assert_failed"}
    ELSE IF "runaway_read" \in W.fault THEN {"aborted"}
    ELSE IF \/ "out_of_block" \in W.fault
            \/ "size_mismatch" \in W.fault
            \/ ~scalar /\ (W.fault \cap {"destroy_dead", "assign_dead", "read_dead"}) # {}
         THEN {"running", "aborted"}
         ELSE {"running"}

\* Which address ::operator new returns is not the program's choice, and only the
\* identity of a block matters.  A state names the blocks in a fixed order: the
\* block "a" points to, the block "b" points to, the other allocated blocks, the
\* free ones.
BlockOrder(W) ==
    LET pa == W.arr["a"].m_data
        pb == W.arr["b"].m_data
        ids == [i \in Blocks |-> i]
        first == IF pa = NULL THEN <<>> ELSE <<pa>>
        second == IF pb = NULL \/ pb = pa THEN <<>> ELSE <<pb>>
    IN first \o second
       \o SelectSeq(ids, LAMBDA p : p # pa /\ p # pb /\ W.heap[p].live)
       \o SelectSeq(ids, LAMBDA p : p # pa /\ p # pb /\ ~W.heap[p].live)

Commit(result, o) ==
    /\ op' = o
    /\ UNCHANGED <<N, scalar, farr, sizeof_T, argv, harness>>
    /\ \E W \in {result} : \E block \in {BlockOrder(W)} :
           LET address == [p \in Blocks |-> CHOOSE r \in Blocks : block[r] = p]
           IN /\ heap' = [r \in Blocks |-> W.heap[block[r]]]
              /\ arr' = [v \in Arrs |->
                          [W.arr[v] EXCEPT !.m_data = IF @ = NULL THEN NULL ELSE address[@]]]
              /\ status' \in Outcomes(W)

Constructible(v) == status = "running" /\ ~arr[v].alive /\ HasFree(heap)
Usable(v) == status = "running" /\ arr[v].alive

DoCtorDefault(v) ==
    /\ Constructible(v)
    /\ Commit(ctor_default(World, v), "ctor_default")

DoCtorCount(v, count, value) ==
    /\ Constructible(v)
    /\ Max(N, count) <= MaxCap
    /\ Commit(ctor_count(World, v, count, value), "ctor_count")

DoCtorIlist(v, ilist) ==
    /\ Constructible(v)
    /\ Max(N, Len(ilist)) <= MaxCap
    /\ Commit(ctor_ilist(World, v, ilist), "ctor_ilist")

DoCtorCopy(v, o) ==
    /\ Constructible(v)
    /\ o # v /\ arr[o].alive
    /\ Max(N, arr[o].m_size) <= MaxCap
    /\ Commit(ctor_copy(World, v, o), "ctor_copy")

DoCtorStd(v, s) ==
    /\ Constructible(v)
    /\ Max(N, Len(s)) <= MaxCap
    /\ Commit(ctor_std(World, v, s), "ctor_std")

DoCtorMove(v, o) ==
    /\ status = "running" /\ ~arr[v].alive
    /\ o # v /\ arr[o].alive
    /\ Commit(ctor_move(World, v, o), "ctor_move")

DoDtor(v) ==
    /\ Usable(v)
    /\ Commit(dtor(World, v), "dtor")

DoClear(v) ==
    /\ Usable(v)
    /\ Commit(clear(World, v), "clear")

DoResize(v, new_capacity) ==
    /\ Usable(v) /\ HasFree(heap)
    /\ Commit(resize(World, v, new_capacity), "resize")

DoShrinkToFit(v) ==
    /\ Usable(v) /\ HasFree(heap)
    /\ arr[v].m_size <= MaxCap
    /\ Commit(shrink_to_fit(World, v), "shrink_to_fit")

\* appending is bounded: m_size stays within MaxLen and a growth within MaxCap
CanAppend(v) ==
    /\ Usable(v)
    /\ arr[v].m_size < MaxLen
    /\ arr[v].m_size = arr[v].m_capacity =>
           HasFree(heap) /\ expand_to_fit(World, v) <= MaxCap

DoPushBack(v, x) ==
    /\ CanAppend(v)
    /\ Commit(push_back(World, v, x), "push_back")

DoPushBackMove(v, x) ==
    /\ CanAppend(v)
    /\ Commit(push_back_move(World, v, x), "push_back_move")

DoEmplaceBack(v, x) ==
    /\ CanAppend(v)
    /\ Commit(emplace_back(World, v, x), "emplace_back")

DoPlusAssign(v, x) ==
    /\ CanAppend(v)
    /\ Commit(plus_assign(World, v, x), "plus_assign")

DoPopBack(v) ==
    /\ Usable(v)
    /\ Commit(pop_back(World, v), "pop_back")

DoErase(v, idx) ==
    /\ Usable(v)
    /\ Commit(erase(World, v, idx), "erase")

DoCopyAssign(v, o) ==
    /\ Usable(v) /\ arr[o].alive /\ HasFree(heap)
    /\ Max(N, arr[o].m_size) <= MaxCap
    /\ Commit(copy_assign(World, v, o), "copy_assign")

DoCopyAssignStd(v, s) ==
    /\ Usable(v) /\ HasFree(heap)
    /\ Max(N, Len(s)) <= MaxCap
    /\ Commit(copy_assign_std(World, v, s), "copy_assign_std")

DoMoveAssign(v, o) ==
    /\ Usable(v) /\ arr[o].alive /\ HasFree(heap)
    /\ Max(N, arr[o].m_size) <= MaxCap
    /\ Commit(move_assign(World, v, o), "move_assign")

DoToggleRestrictive(v) ==
    /\ Usable(v)
    /\ Commit(toggle_restrictive(World, v), "toggle_restrictive")

DoSetPolicy(v, policy) ==
    /\ Usable(v)
    /\ Commit(set_policy_flags(World, v, policy), "policy_flags")

DoStore(v, idx, x) ==
    /\ Usable(v)
    /\ Commit(subscript_store(World, v, idx, x), "store")

DoSubscript(v, idx) ==
    /\ Usable(v)
    /\ Commit(subscript_load(World, v, idx), "subscript")

DoAt(v, idx) ==
    /\ Usable(v)
    /\ Commit(at(World, v, idx), "at")

DoBack(v) ==
    /\ Usable(v)
    /\ Commit(back(World, v), "back")

\* the operations of one vector object
Member(v) ==
    \/ DoCtorDefault(v)
    \/ \E count \in 0..MaxInit, value \in Val : DoCtorCount(v, count, value)
    \/ \E ilist \in Lists : DoCtorIlist(v, ilist)
    \/ \E s \in Lists : DoCtorStd(v, s)
    \/ DoDtor(v)
    \/ DoClear(v)
    \/ \E n \in 0..MaxCap : DoResize(v, n)
    \/ DoShrinkToFit(v)
    \/ \E x \in Val : DoPushBack(v, x)
    \/ \E x \in Val : DoPushBackMove(v, x)
    \/ \E x \in Val : DoEmplaceBack(v, x)
    \/ \E x \in Val : DoPlusAssign(v, x)
    \/ DoPopBack(v)
    \/ \E idx \in 0..(MaxLen - 1) : idx < arr[v].m_size /\ DoErase(v, idx)
    \/ \E s \in Lists : DoCopyAssignStd(v, s)
    \/ \E idx \in 0..(MaxLen - 1), x \in Val : idx < arr[v].m_size /\ DoStore(v, idx, x)

\* one vector object, "a", on its own (a = a and a = std::move(a) included)
Next == Member("a") \/ DoCopyAssign("a", "a") \/ DoMoveAssign("a", "a")

Spec == Init /\ [][Next]_vars

\* one vector object under its constructors and the element operations only
NextBasic ==
    \/ DoCtorDefault("a")
    \/ \E count \in 0..MaxInit, value \in Val : DoCtorCount("a", count, value)
    \/ \E ilist \in Lists : DoCtorIlist("a", ilist)
    \/ \E s \in Lists : DoCtorStd("a", s)
    \/ DoDtor("a")
    \/ \E x \in Val : DoPushBack("a", x)
    \/ \E x \in Val : DoPushBackMove("a", x)
    \/ \E x \in Val : DoEmplaceBack("a", x)
    \/ DoPopBack("a")
    \/ \E idx \in 0..(MaxLen - 1) : idx < arr["a"].m_size /\ DoErase("a", idx)
    \/ DoClear("a")

SpecBasic == Init /\ [][NextBasic]_vars

\* two distinct vector objects, both kept within MaxPairLen, with the
\* constructors and assignments that take another vector and one
\* representative of every kind of member operation
PairBounded ==
    \A v \in Arrs : arr[v].m_size <= MaxPairLen /\ arr[v].m_capacity <= MaxPairLen

NextPair ==
    \/ \E v \in Arrs : DoCtorDefault(v) /\ PairBounded'
    \/ \E v \in Arrs, ilist \in Lists : DoCtorIlist(v, ilist) /\ PairBounded'
    \/ \E v \in Arrs, o \in Arrs : DoCtorCopy(v, o) /\ PairBounded'
    \/ \E v \in Arrs, o \in Arrs : DoCtorMove(v, o) /\ PairBounded'
    \/ \E v \in Arrs : DoDtor(v) /\ PairBounded'
    \/ \E v \in Arrs : DoClear(v) /\ PairBounded'
    \/ \E v \in Arrs, n \in 0..MaxPairLen : DoResize(v, n) /\ PairBounded'
    \/ \E v \in Arrs : DoShrinkToFit(v) /\ PairBounded'
    \/ \E v \in Arrs, x \in Val : DoPushBack(v, x) /\ PairBounded'
    \/ \E v \in Arrs : DoPopBack(v) /\ PairBounded'
    \/ \E v \in Arrs, idx \in 0..(MaxPairLen - 1) :
           idx < arr[v].m_size /\ DoErase(v, idx) /\ PairBounded'
    \/ \E v \in Arrs, idx \in 0..(MaxPairLen - 1), x \in Val :
           idx < arr[v].m_size /\ DoStore(v, idx, x) /\ PairBounded'
    \/ \E v \in Arrs : \E o \in Arrs \ {v} : DoCopyAssign(v, o) /\ PairBounded'
    \/ \E v \in Arrs : \E o \in Arrs \ {v} : DoMoveAssign(v, o) /\ PairBounded'

SpecPair == Init /\ [][NextPair]_vars

(***************************************************************************)
(* Observers.                                                              *)
(***************************************************************************)
\* vector::len
len(v) == arr[v].m_size

\* vector::capacity
capacity(v) == arr[v].m_capacity

\* vector::data
data(v) == arr[v].m_data

\* the elements operator[] yields for the indices 0 .. len() - 1
Elems(v) == [i \in 1..arr[v].m_size |-> ReadSlot(heap, arr[v].m_data, i - 1).val]

\* slot i of the storage of v holds a live element
LiveAt(v, i) ==
    InBlock(heap, arr[v].m_data, i) /\ heap[arr[v].m_data].slots[i + 1].st = "live"

Remove(s, idx) == [i \in 1..(Len(s) - 1) |-> IF i <= idx THEN s[i] ELSE s[i + 1]]

Prefix(s, n) == [i \in 1..n |-> s[i]]

AllocatedBlocks == {p \in Blocks : heap[p].live}

Owners(p) == {v \in Arrs : arr[v].alive /\ arr[v].m_data = p}

MovedFrom(v) == arr[v].alive /\ data(v) = NULL /\ len(v) = 0 /\ capacity(v) = 0

\* the observable state of o is the same before and after a step
Same(o) ==
    /\ arr[o].alive' = arr[o].alive
    /\ len(o)' = len(o)
    /\ capacity(o)' = capacity(o)
    /\ Elems(o)' = Elems(o)

(***************************************************************************)
(* Claims.                                                                 *)
(***************************************************************************)
C1_Step ==
    /\ \A count \in 0..MaxInit, value \in Val :
           DoCtorCount("a", count, value) => len("a")' = count
    /\ \A s \in Lists : DoCtorIlist("a", s) \/ DoCtorStd("a", s) => len("a")' = Len(s)
    /\ DoCtorDefault("a") => len("a")' = 0
    /\ \A x \in Val :
           DoPushBack("a", x) \/ DoPushBackMove("a", x) \/ DoEmplaceBack("a", x)
               => len("a")' = len("a") + 1
    /\ DoPopBack("a") => len("a")' = IF len("a") = 0 THEN 0 ELSE len("a") - 1
    /\ \A idx \in 0..(MaxLen - 1) : DoErase("a", idx) => len("a")' = len("a") - 1
    /\ DoClear("a") => len("a")' = 0
    /\ arr'["a"].alive => 0 <= len("a")' /\ len("a")' <= capacity("a")'

\* C1: every constructor installs exactly the elements it was given, pushBack and
\* emplaceBack add one element, popBack removes one unless the array is empty,
\* erase removes one, clear removes all, and 0 <= length <= capacity holds after
\* every call.
C1_LengthInvariant == [][C1_Step]_vars

\* C2: in every reachable state exactly the slots with index in [0, length) of a
\* vector hold a live element and the slots in [length, capacity) hold none.
C2_LiveExactlyBelowLength ==
    \A v \in Arrs : arr[v].alive =>
        \A i \in 0..(Max(len(v), capacity(v)) - 1) : LiveAt(v, i) <=> i < len(v)

C3_Step ==
    \A v \in Arrs, x \in Val :
        MovedFrom(v) /\ DoPushBack(v, x) =>
            len(v)' = 1 /\ capacity(v)' >= 1 /\ Elems(v)' = <<x>>

\* C3: pushBack on a moved-from vector (storage null, length 0, capacity 0) grows
\* the storage first, so that afterwards length is 1, capacity is at least 1 and
\* element 0 is the pushed value.
C3_MovedFromReusable == [][C3_Step]_vars

\* C4 as claimed: the storage of a vector is null if and only if its capacity
\* is 0.
C4_NullIffZeroCapacity ==
    \A v \in Arrs : arr[v].alive => (data(v) = NULL <=> capacity(v) = 0)

\* C4 amended: a vector whose storage is null has capacity 0 and length 0 (a
\* vector of capacity 0 may own a zero-sized block).
C4_NullImpliesZeroCapacity ==
    \A v \in Arrs : arr[v].alive /\ data(v) = NULL => capacity(v) = 0 /\ len(v) = 0

C4_Witness ==
    /\ op = "ctor_move"
    /\ \E v \in Arrs, o \in Arrs : v # o /\ data(o) = NULL /\ arr[o].alive /\ len(v) = 2

\* C5: every allocated raw block is the storage of exactly one vector; no
\* operation, move assignment included, leaves a block that is neither owned nor
\* released.
C5_NoLeak == \A p \in AllocatedBlocks : Cardinality(Owners(p)) = 1

C6_Step ==
    \A v \in Arrs : \A o \in Arrs \ {v} :
        DoCtorMove(v, o) \/ DoMoveAssign(v, o) =>
            /\ len(o)' = 0 /\ capacity(o)' = 0 /\ data(o)' = NULL
            /\ Elems(v)' = Elems(o)
            /\ len(v)' = len(o)
            /\ capacity(v)' = capacity(o)

\* C6: after b is move-constructed from a or b = move(a) with a and b distinct, a
\* has length 0, capacity 0 and null storage, and b holds the elements a held, in
\* the same order, with a's former length and capacity.
C6_MoveLeavesSourceEmpty == [][C6_Step]_vars

C6_Witness ==
    /\ op = "move_assign"
    /\ \E v \in Arrs, o \in Arrs :
           /\ v # o /\ MovedFrom(o) /\ arr[v].alive
           /\ len(v) = 2 /\ Elems(v)[1] # Elems(v)[2]

C7_Step ==
    \A v \in Arrs, idx \in 0..(MaxLen - 1) :
        DoErase(v, idx) =>
            /\ status' = "running"
            /\ Elems(v)' = Remove(Elems(v), idx)
            /\ len(v)' = len(v) - 1
            /\ capacity(v)' = capacity(v)
            /\ data(v)' # NULL

\* C7: erase(i) with i < length returns with the elements [e0..e(i-1), e(i+1)..en]
\* in their order, length decremented by 1 and capacity unchanged; erasing the
\* only element leaves an empty array that can still be used.
C7_ErasePreservesOrder == [][C7_Step]_vars

C8_Step ==
    \A v \in Arrs, x \in Val :
        DoPushBack(v, x) \/ DoPushBackMove(v, x) \/ DoEmplaceBack(v, x) \/ DoPlusAssign(v, x)
            => Elems(v)' = Append(Elems(v), x) /\ len(v)' = len(v) + 1

\* C8: pushBack (by copy or by move), emplaceBack and operator+= leave the
\* contents equal to the former contents followed by the new element, with length
\* increased by 1, whether or not the call reallocated.
C8_AppendKeepsContents == [][C8_Step]_vars

C9_Step ==
    \A v \in Arrs, n \in 0..MaxCap :
        DoResize(v, n) =>
            /\ capacity(v)' = n
            /\ len(v)' = Min(len(v), n)
            /\ Elems(v)' = Prefix(Elems(v), Min(len(v), n))
            /\ \A i \in 0..(n - 1) : LiveAt(v, i)' <=> i < Min(len(v), n)
            /\ data(v)' # NULL
            /\ Cardinality(AllocatedBlocks)' =
                   Cardinality(AllocatedBlocks) + (IF data(v) = NULL THEN 1 ELSE 0)

C10_Step ==
    /\ \A v \in Arrs : \A o \in Arrs \ {v} :
           DoCtorCopy(v, o) \/ DoCopyAssign(v, o) => data(v)' # data(o)' /\ Same(o)
    /\ \A v \in Arrs : \A o \in Arrs \ {v} :
           (\/ DoClear(v)
            \/ DoPopBack(v)
            \/ \E x \in Val : DoPushBack(v, x)
            \/ \E n \in 0..MaxPairLen : DoResize(v, n)
            \/ \E idx \in 0..(MaxPairLen - 1) : DoErase(v, idx)
            \/ \E idx \in 0..(MaxPairLen - 1), x \in Val : DoStore(v, idx, x))
               => Same(o)

\* C10: a copy owns a storage block of its own: copy construction and copy
\* assignment install a block distinct from the source's and leave the source
\* unchanged, and pushBack, popBack, erase, clear, an element write or reserve on
\* one vector leaves the length, capacity and elements of the other unchanged.
C10_CopyIndependence == [][C10_Step]_vars

C10_Witness ==
    /\ op = "store"
    /\ arr["a"].alive /\ arr["b"].alive
    /\ data("a") # data("b")
    /\ len("a") = 2 /\ len("b") = 2
    /\ Elems("a") # Elems("b")

(***************************************************************************)
(* Copies: two vector objects under the constructors and assignments that  *)
(* copy, from another vector or from a std::vector.                        *)
(***************************************************************************)
NextCopy ==
    \/ \E v \in Arrs, ilist \in Lists : DoCtorIlist(v, ilist) /\ PairBounded'
    \/ \E v \in Arrs, s \in Lists : DoCtorStd(v, s) /\ PairBounded'
    \/ \E v \in Arrs, o \in Arrs : DoCtorCopy(v, o) /\ PairBounded'
    \/ \E v \in Arrs, o \in Arrs : DoCtorMove(v, o) /\ PairBounded'
    \/ \E v \in Arrs : \E o \in Arrs \ {v} : DoCopyAssign(v, o) /\ PairBounded'
    \/ \E v \in Arrs, s \in Lists : DoCopyAssignStd(v, s) /\ PairBounded'
    \/ \E v \in Arrs : DoDtor(v) /\ PairBounded'
    \/ \E v \in Arrs, x \in Val : DoPushBack(v, x) /\ PairBounded'
    \/ \E v \in Arrs : DoPopBack(v) /\ PairBounded'

SpecCopy == Init /\ [][NextCopy]_vars

C11_Step ==
    /\ \A v \in Arrs : \A o \in Arrs \ {v} :
           DoCtorCopy(v, o) \/ DoCopyAssign(v, o) =>
               /\ len(v)' = len(o)
               /\ Elems(v)' = Elems(o)
               /\ capacity(v)' = Max(N, len(o))
               /\ Same(o)
    /\ \A v \in Arrs : \A o \in Arrs \ {v} :
           DoCopyAssign(v, o) => "release_live" \notin copy_assign(World, v, o).fault
    /\ \A v \in Arrs, s \in Lists :
           DoCtorStd(v, s) \/ DoCopyAssignStd(v, s) =>
               /\ Elems(v)' = s
               /\ capacity(v)' = Max(N, Len(s))
    /\ \A v \in Arrs, s \in Lists :
           DoCopyAssignStd(v, s) => "release_live" \notin copy_assign_std(World, v, s).fault

\* C11: after b is copy-constructed or copy-assigned from a distinct vector a, or
\* from a std::vector, b has the length and the elements of the source, capacity
\* max(N, length of the source), the block b held is released with no live
\* element left in it, and a is unchanged.
C11_CopyIsDeep == [][C11_Step]_vars

C11_Witness ==
    /\ op = "copy_assign"
    /\ arr["a"].alive /\ arr["b"].alive
    /\ Elems("a") = Elems("b") /\ len("a") = 2
    /\ Elems("a")[1] # Elems("a")[2]
    /\ data("a") # data("b")

(***************************************************************************)
(* Iterators (arr_iterators.h): an array_iterator holds a pointer, here the *)
(* block and the offset of the slot it points at.                          *)
(***************************************************************************)
\* array_iterator(pointer ptr)
array_iterator(p, i) == [blk |-> p, off |-> i]

\* vector::begin : iterator(m_data)
begin(v) == array_iterator(arr[v].m_data, 0)

\* a faulty end(): one past the last slot of the storage
end_AtCapacity(v) == array_iterator(arr[v].m_data, arr[v].m_capacity)

\* vector::end : iterator(m_data + m_size)
end(v) == array_iterator(arr[v].m_data, arr[v].m_size)

\* array_iterator::operator++ and operator--
Increment(it) == [it EXCEPT !.off = @ + 1]
Decrement(it) == [it EXCEPT !.off = @ - 1]

\* array_iterator::operator+
IterPlus(it, n) == [it EXCEPT !.off = @ + n]

\* a faulty operator-: the iterator is returned unmoved
IterMinus_Unmoved(it, n) == it

\* array_iterator::operator-
IterMinus(it, n) == [it EXCEPT !.off = @ - n]

\* array_iterator::operator* (read)
Deref(it) == ReadSlot(heap, it.blk, it.off).val

\* for (it = first; it != last; ++it) visit *it, cut after fuel steps
RECURSIVE Walk(_, _, _)
Walk(it, last, fuel) ==
    IF it = last \/ fuel = 0 THEN <<>>
    ELSE <<Deref(it)>> \o Walk(Increment(it), last, fuel - 1)

\* the elements a traversal from begin() to end() visits
Traverse(v) == Walk(begin(v), end(v), MaxLen + 1)

C12_Step ==
    \A s \in Lists :
        DoCtorIlist("a", s) =>
            /\ Traverse("a")' = s
            /\ IterPlus(begin("a"), len("a"))' = end("a")'
            /\ len("a")' = Len(s)
            /\ capacity("a")' >= Max(N, Len(s))

\* C12: a vector constructed from an initializer list S (the empty one included)
\* and traversed from begin() by increment until the iterator equals end() yields
\* the elements of S in order in |S| steps, begin() + len() == end(), and its
\* capacity is at least max(N, |S|).
C12_TraversalYieldsList == [][C12_Step]_vars

C12_Witness == op = "ctor_ilist" /\ Traverse("a") = <<1, 2>> /\ capacity("a") = 2

(***************************************************************************)
(* test::vector::compare: v3 is default-constructed and filled with the    *)
(* elements of v1 read backwards through an iterator.                      *)
(***************************************************************************)
\* for (it = v1.end(); it != v1.begin(); --it) v3 += *(it - 1);
\* v1 is not written by the loop, so *(it - 1) reads the current state
RECURSIVE ReverseFill(_, _, _, _)
ReverseFill(W, v3, it, first) ==
    IF it = first THEN W
    ELSE ReverseFill(plus_assign(W, v3, Deref(IterMinus(it, 1))), v3, Decrement(it), first)

\* vec_t v3; followed by the loop
compare_reverse(W, v3, v1) == ReverseFill(ctor_default(W, v3), v3, end(v1), begin(v1))

FreeBlocks == {p \in Blocks : ~heap[p].live}

DoCompareReverse(v3, v1) ==
    /\ Constructible(v3)
    /\ v1 # v3 /\ arr[v1].alive
    /\ Cardinality(FreeBlocks) >= 2
    /\ Commit(compare_reverse(World, v3, v1), "compare")

NextCompare ==
    \/ \E ilist \in Lists : DoCtorIlist("a", ilist)
    \/ \E x \in Val : DoPushBack("a", x)
    \/ DoPopBack("a")
    \/ DoCtorCopy("b", "a")
    \/ DoCompareReverse("b", "a")
    \/ \E v \in Arrs : DoDtor(v)

SpecCompare == Init /\ [][NextCompare]_vars

Reverse(s) == [i \in 1..Len(s) |-> s[Len(s) + 1 - i]]

C13_Step ==
    /\ DoCompareReverse("b", "a") =>
           /\ Elems("b")' = Reverse(Elems("a"))
           /\ len("b")' = len("a")
           /\ Same("a")
    /\ DoCtorCopy("b", "a") => Elems("b")' = Elems("a") /\ Same("a")

\* C13: walking v1 from end() down to begin() by decrement and appending
\* *(it - 1) with operator+= to a default-constructed v3 leaves v3 equal to the
\* reverse of v1 with the same length and v1 unchanged; a copy v2(v1) is
\* element-wise equal to v1.
C13_ReverseFill == [][C13_Step]_vars

C13_Witness ==
    /\ op = "compare"
    /\ len("b") = 3 /\ capacity("b") = 3
    /\ Elems("b") # Elems("a")

(***************************************************************************)
(* One vector object under its constructors, the element operations and    *)
(* the capacity expansion policy.                                          *)
(***************************************************************************)
NextPolicy ==
    \/ DoCtorDefault("a")
    \/ \E count \in 0..MaxInit, value \in Val : DoCtorCount("a", count, value)
    \/ DoDtor("a")
    \/ \E x \in Val : DoPushBack("a", x)
    \/ \E x \in Val : DoPushBackMove("a", x)
    \/ \E x \in Val : DoEmplaceBack("a", x)
    \/ \E x \in Val : DoPlusAssign("a", x)
    \/ DoPopBack("a")
    \/ \E idx \in 0..(MaxLen - 1) : idx < arr["a"].m_size /\ DoErase("a", idx)
    \/ DoClear("a")
    \/ DoToggleRestrictive("a")
    \/ \E policy \in {NORMAL, RESTRICTIVE} : DoSetPolicy("a", policy)

SpecPolicy == Init /\ [][NextPolicy]_vars

C14_Step ==
    (\/ DoPopBack("a")
     \/ DoClear("a")
     \/ \E idx \in 0..(MaxLen - 1) : DoErase("a", idx)
     \/ \E x \in Val : \/ DoPushBack("a", x)
                       \/ DoPushBackMove("a", x)
                       \/ DoEmplaceBack("a", x)
                       \/ DoPlusAssign("a", x))
        => capacity("a")' >= capacity("a")

\* C14: no push_back, emplace_back, operator+=, pop_back, erase or clear call
\* makes the capacity smaller, under the normal and under the restrictive
\* expansion policy: a growth step installs a capacity >= the prior one.
C14_CapacityMonotone == [][C14_Step]_vars

C14_Witness ==
    /\ op = "push_back"
    /\ plcy_restrictive(arr["a"].m_mem_policy)
    /\ capacity("a") = 3 /\ len("a") = 3

(***************************************************************************)
(* Growth of a full vector at capacities too large to lay out slot by      *)
(* slot: the block is allocated, its slots are not represented.            *)
(***************************************************************************)
GrowthInputs ==
    (0..MaxSmallCap) \cup ((1000 - MaxWindow)..(1000 + MaxWindow))
        \cup (LargeCap..(LargeCap + MaxWindow))

\* a vector "a" that is full, length = capacity = c
InitGrowth ==
    /\ \E c \in GrowthInputs :
           /\ heap = [p \in Blocks |->
                        IF p = 1 THEN [live |-> TRUE, slots |-> <<>>, bytes |-> c]
                        ELSE FreeBlock]
           /\ arr = [v \in Arrs |->
                        IF v = "a"
                        THEN [alive |-> TRUE, m_data |-> 1, m_size |-> c,
                              m_capacity |-> c, m_mem_policy |-> NORMAL]
                        ELSE NoObject]
    /\ status = "running"
    /\ op = "init"
    /\ N \in Hints
    /\ scalar \in BOOLEAN
    /\ NoArrays

\* push_back on a full vector, as far as the capacity goes:
\* resize(expand_to_fit()) installs the new capacity, then m_size++
DoGrowthStep(v) ==
    /\ Usable(v)
    /\ arr[v].m_size = arr[v].m_capacity
    /\ arr' = [arr EXCEPT ![v].m_capacity = expand_to_fit(World, v), ![v].m_size = @ + 1]
    /\ op' = "grow"
    /\ UNCHANGED <<heap, status, N, scalar, farr, sizeof_T, argv, harness>>

NextGrowth ==
    \/ DoGrowthStep("a")
    \/ DoToggleRestrictive("a")
    \/ \E policy \in {NORMAL, RESTRICTIVE} : DoSetPolicy("a", policy)

SpecGrowth == InitGrowth /\ [][NextGrowth]_vars

\* ceil(c * 1.1) and ceil(c * 1.5)
CeilTenth(c) == (11 * c + 9) \div 10
CeilHalf(c) == (3 * c + 1) \div 2

C15_Step ==
    DoGrowthStep("a") =>
        capacity("a")' = IF plcy_restrictive(arr["a"].m_mem_policy) \/ capacity("a") >= 1000
                         THEN CeilTenth(capacity("a"))
                         ELSE CeilHalf(capacity("a"))

\* C15: when a push finds length = capacity = c, the capacity installed is
\* ceil(c * 1.1) if c >= 1000 or the restrictive mode is active, and ceil(c * 1.5)
\* otherwise.
C15_GrowthNumbers == [][C15_Step]_vars

(***************************************************************************)
(* Element access and erase with any index, in range or not.               *)
(***************************************************************************)
Indices == 0..MaxLen

NextAccess ==
    \/ DoCtorDefault("a")
    \/ \E count \in 0..MaxInit, value \in Val : DoCtorCount("a", count, value)
    \/ \E ilist \in Lists : DoCtorIlist("a", ilist)
    \/ DoDtor("a")
    \/ \E x \in Val : DoPushBack("a", x)
    \/ DoPopBack("a")
    \/ DoClear("a")
    \/ \E idx \in Indices : DoErase("a", idx)
    \/ \E idx \in Indices : DoSubscript("a", idx)
    \/ \E idx \in Indices, x \in Val : DoStore("a", idx, x)
    \/ \E idx \in Indices : DoAt("a", idx)
    \/ DoBack("a")

SpecAccess == Init /\ [][NextAccess]_vars

C16_Step == DoBack("a") /\ len("a") = 0 => status' = "running"

\* C16: back() on an empty array returns element 0 as a fallback and does not end
\* in a fatal precondition violation.
C16_BackOnEmptyIsNotFatal == [][C16_Step]_vars

OutOfRange(v) == {idx \in Indices : idx >= len(v)}

\* the call ended in the assertion and nothing else happened
FailedUntouched(W) ==
    /\ W.fault = {"assertion"}
    /\ status' = "assert_failed"
    /\ arr' = arr
    /\ heap' = heap

C17_Step ==
    \A idx \in OutOfRange("a") :
        /\ DoSubscript("a", idx) => FailedUntouched(subscript_load(World, "a", idx))
        /\ DoAt("a", idx) => FailedUntouched(at(World, "a", idx))
        /\ DoErase("a", idx) => FailedUntouched(erase(World, "a", idx))
        /\ \A x \in Val :
               DoStore("a", idx, x) => FailedUntouched(subscript_store(World, "a", idx, x))

\* C17: operator[], at and erase with idx >= length end in a failed assertion
\* before any slot is read, destroyed or shifted; length, capacity, the block and
\* every element are as they were before the call.
C17_OutOfRangeAsserts == [][C17_Step]_vars

\* an erase with an index past the end has failed on an array of one element
C17_Witness ==
    /\ status = "assert_failed"
    /\ op = "erase"
    /\ arr["a"].alive /\ len("a") = 1 /\ LiveAt("a", 0)

C18_Step ==
    \A v \in Arrs :
        DoPopBack(v) =>
            /\ status' = "running"
            /\ pop_back(World, v).fault = {}
            /\ capacity(v)' = capacity(v)
            /\ data(v)' = data(v)
            /\ IF len(v) = 0
               THEN arr' = arr /\ heap' = heap
               ELSE /\ len(v)' = len(v) - 1
                    /\ LiveAt(v, len(v) - 1)
                    /\ heap' = [heap EXCEPT ![data(v)].slots[len(v)] = RawSlot]

\* C18: popBack on an empty array changes nothing and destroys nothing; on a
\* non-empty array it destroys exactly the live element at index length - 1 and
\* decrements the length, with capacity, block and every other slot unchanged.
C18_PopBackRemovesLast == [][C18_Step]_vars

\* the block of v with the slots 0 .. n - 1 destroyed
Destroyed(v, n) ==
    [heap EXCEPT ![data(v)].slots =
        [i \in 1..Len(@) |-> IF i <= n THEN RawSlot ELSE @[i]]]

C19_Step ==
    \A v \in Arrs :
        /\ DoClear(v) =>
               /\ status' = "running"
               /\ clear(World, v).fault = {}
               /\ \A i \in 0..(len(v) - 1) : LiveAt(v, i)
               /\ len(v)' = 0
               /\ capacity(v)' = capacity(v)
               /\ data(v)' = data(v)
               /\ heap' = Destroyed(v, len(v))
               /\ \A i \in 0..(capacity(v) - 1) : ~LiveAt(v, i)'
        /\ \A x \in Val :
               DoPushBack(v, x) /\ len(v) < capacity(v) =>
                   /\ data(v)' = data(v)
                   /\ capacity(v)' = capacity(v)
                   /\ AllocatedBlocks' = AllocatedBlocks

\* C19: clear destroys every live element exactly once and sets the length to 0,
\* the capacity and the block stay the same, and a pushBack into the retained
\* capacity does not reallocate.
C19_ClearKeepsStorage == [][C19_Step]_vars

C20_Step ==
    \A v \in Arrs :
        DoShrinkToFit(v) =>
            /\ shrink_to_fit(World, v) = resize(World, v, len(v))
            /\ capacity(v)' = len(v)'
            /\ len(v)' = len(v)
            /\ Elems(v)' = Elems(v)
            /\ \A i \in 0..(len(v) - 1) : LiveAt(v, i) => LiveAt(v, i)'

\* C20: shrinkToFit has the effect of reserve(length()): afterwards the capacity
\* equals the length, and the length and the elements, in value and order, are
\* the ones before the call, for every array state including the empty one.
C20_ShrinkIsReserveLength == [][C20_Step]_vars

\* shrink_to_fit has left an array of two elements with two slots, both live
C20_Witness ==
    /\ op = "shrink_to_fit" /\ status = "running"
    /\ arr["a"].alive
    /\ len("a") = 2 /\ capacity("a") = 2 /\ LiveAt("a", 0) /\ LiveAt("a", 1)

(***************************************************************************)
(* Construction with every hint N the storage bound allows.                *)
(***************************************************************************)
InitHint ==
    /\ heap = [p \in Blocks |-> FreeBlock]
    /\ arr = [v \in Arrs |-> NoObject]
    /\ status = "running"
    /\ op = "init"
    /\ N \in 0..MaxCap
    /\ scalar \in BOOLEAN
    /\ NoArrays

SpecHint == InitHint /\ [][NextBasic]_vars

C21_Step ==
    DoCtorDefault("a") =>
        /\ status' = "running"
        /\ ctor_default(World, "a").fault = {}
        /\ len("a")' = 0
        /\ data("a")' # NULL
        /\ heap'[data("a")'].live
        /\ Len(heap'[data("a")'].slots) = capacity("a")'
        /\ \A i \in 0..(capacity("a")' - 1) : ~LiveAt("a", i)'
        /\ capacity("a")' = Max(N, 1)
        /\ capacity("a")' >= N /\ capacity("a")' >= 1

\* C21: a default-constructed vector<T, N> has length 0, no live element, a
\* non-null block of capacity max(N, 1) slots: at least the hint, and one slot
\* for N = 0.
C21_DefaultConstructed == [][C21_Step]_vars

\* the default constructor has run with hint 0, and gave one slot
C21_Witness ==
    /\ op = "ctor_default" /\ N = 0
    /\ arr["a"].alive /\ capacity("a") = 1 /\ len("a") = 0

(***************************************************************************)
(* operator<<(std::ostream&, const vector<T, N>&): the characters inserted *)
(* are a sequence of tokens; how one element is formatted is left out.     *)
(***************************************************************************)
Open == [tok |-> "[", val |-> NoVal]
Close == [tok |-> "]", val |-> NoVal]
Separator == [tok |-> ", ", val |-> NoVal]
Element(x) == [tok |-> "element", val |-> x]

\* for (it = rhs.begin(); (it + 1) != rhs.end(); ++it) { insert *it; os << ", "; }
\* Once it is at or past end(), it + 1 never equals end() again: the loop runs on.
RECURSIVE InsertLoop(_, _, _, _)
InsertLoop(it, last, out, reads) ==
    IF IterPlus(it, 1) = last
    THEN [it |-> it, out |-> out, reads |-> reads, runaway |-> FALSE]
    ELSE IF it.off >= last.off
         THEN [it |-> Increment(it), out |-> out \o <<Element(Deref(it)), Separator>>,
               reads |-> reads \cup {it.off}, runaway |-> TRUE]
         ELSE InsertLoop(Increment(it), last,
                         out \o <<Element(Deref(it)), Separator>>, reads \cup {it.off})

\* operator<<: what is inserted, which offsets are dereferenced, and whether the
\* loop ran past end()
ostream_insert(v) ==
    LET loop == InsertLoop(begin(v), end(v), <<Open>>, {})
    IN IF loop.runaway THEN loop
       ELSE IF loop.it.blk # NULL
            THEN [loop EXCEPT !.out = @ \o <<Element(Deref(loop.it)), Close>>,
                              !.reads = @ \cup {loop.it.off}]
            ELSE [loop EXCEPT !.out = @ \o <<Close>>]

\* the vector is not changed; reads of positions that hold no element are faults
ostream_insert_world(W, v) ==
    LET r == ostream_insert(v)
        dead == {i \in r.reads : ~LiveAt(v, i)}
    IN [W EXCEPT !.fault = @ \cup (IF r.runaway THEN {"runaway_read"} ELSE {})
                             \cup (IF dead # {} THEN {"read_dead"} ELSE {})]

DoOstreamInsert(v) ==
    /\ Usable(v)
    /\ Commit(ostream_insert_world(World, v), "ostream_insert")

NextRender ==
    \/ DoCtorDefault("a")
    \/ \E ilist \in Lists : DoCtorIlist("a", ilist)
    \/ \E x \in Val : DoPushBack("a", x)
    \/ DoPopBack("a")
    \/ DoClear("a")
    \/ DoCtorMove("b", "a")
    \/ \E v \in Arrs : DoDtor(v)
    \/ \E v \in Arrs : DoOstreamInsert(v)

SpecRender == Init /\ [][NextRender]_vars

RECURSIVE Joined(_)
\* the elements of s with a separator between neighbours
Joined(s) ==
    IF Len(s) = 0 THEN <<>>
    ELSE IF Len(s) = 1 THEN <<Element(s[1])>>
    ELSE <<Element(s[1]), Separator>> \o Joined(Tail(s))

C22_Step ==
    \A v \in Arrs :
        DoOstreamInsert(v) =>
            /\ status' = "running"
            /\ ~ostream_insert(v).runaway
            /\ ostream_insert(v).out = <<Open>> \o Joined(Elems(v)) \o <<Close>>
            /\ ostream_insert(v).reads \subseteq 0..(len(v) - 1)

\* C22: inserting a vector of length n into a stream terminates with '[', the n
\* elements in index order separated by ', ', and ']', and dereferences no
\* position outside [0, n); an empty vector is rendered as [].
C22_RenderTerminates == [][C22_Step]_vars

(***************************************************************************)
(* nostl::array<T, N> (array.h): N elements stored in the object itself.   *)
(* A world is the array objects and the faults of the call so far.         *)
(***************************************************************************)
DefaultT == 0       \* the value of T()

ArrayWorld == [farr |-> farr, fault |-> {}]

LiveSlot(x) == [st |-> "live", val |-> x]

\* T m_data[N] before a constructor body runs: default-initialised, which for a
\* scalar T leaves an indeterminate value
Members(W, f) ==
    [W EXCEPT !.farr[f] =
        [alive |-> TRUE,
         m_data |-> [i \in 1..N |-> LiveSlot(IF scalar THEN Garbage ELSE DefaultT)]]]

RECURSIVE Unit(_)
\* the w-byte unsigned number whose bytes are all 1
Unit(w) == IF w = 1 THEN 1 ELSE 256 * Unit(w - 1) + 1

\* the T whose sizeof (T) bytes all equal (unsigned char) value, T signed
ByteFilled(value) ==
    LET b == value % 256
    IN IF b >= 128 THEN (b - 255) * Unit(sizeof_T) - 1 ELSE b * Unit(sizeof_T)

\* std::memset(m_data + from, value, (to - from) * sizeof (T))
memset(W, f, from, to, value) ==
    [W EXCEPT !.farr[f].m_data =
        [i \in 1..Len(@) |->
            IF from < i /\ i <= to THEN [@[i] EXCEPT !.val = ByteFilled(value)] ELSE @[i]]]

\* m_data[i] = x, for a class type T
ArrayAssign(W, f, i, x) ==
    [W EXCEPT !.farr[f].m_data[i] = LiveSlot(x),
              !.fault = IF W.farr[f].m_data[i].st = "live" THEN @ ELSE @ \cup {"assign_dead"}]

\* m_data[i].~T()
ArrayDestroy(W, f, i) ==
    IF W.farr[f].m_data[i].st = "live"
    THEN [W EXCEPT !.farr[f].m_data[i] = RawSlot]
    ELSE [W EXCEPT !.fault = @ \cup {"destroy_dead"}]

RECURSIVE AssignEach(_, _, _, _)
\* for (auto& e : *this) e = value;
AssignEach(W, f, i, value) ==
    IF i > N THEN W ELSE AssignEach(ArrayAssign(W, f, i, value), f, i + 1, value)

RECURSIVE DestroyEach(_, _, _)
\* for (auto& e : a) e.~T();
DestroyEach(W, f, i) ==
    IF i > N THEN W ELSE DestroyEach(ArrayDestroy(W, f, i), f, i + 1)

\* array::fill; the scalar branch is the one that compiles for a scalar T, and
\* for a class type T the call of std::memset does not compile
array_fill(W, f, value) ==
    IF scalar THEN memset(W, f, 0, N, value) ELSE AssignEach(W, f, 1, value)

\* array::array(const T& value)
array_ctor_value(W, f, value) == array_fill(Members(W, f), f, value)

\* the values a T can hold that the calls are made with
TValues ==
    IF sizeof_T = 1 THEN (0..MaxVal) \cup {-1, 5, 127}
    ELSE (0..MaxVal) \cup {-1, 5, 255, 256}

ArrayCommit(W, o) ==
    /\ op' = o
    /\ farr' = W.farr
    /\ status' \in Outcomes(W)
    /\ UNCHANGED <<heap, arr, N, scalar, sizeof_T, argv, harness>>

DoArrayFill(f, value) ==
    /\ status = "running" /\ farr[f].alive /\ scalar
    /\ ArrayCommit(array_fill(ArrayWorld, f, value), "array_fill")

DoArrayCtorValue(f, value) ==
    /\ status = "running" /\ ~farr[f].alive /\ scalar
    /\ ArrayCommit(array_ctor_value(ArrayWorld, f, value), "array_ctor_value")

\* std::memcpy / std::memmove of the N elements of g into f
memcpy(W, f, g) ==
    [W EXCEPT !.farr[f].m_data =
        [i \in 1..Len(@) |-> [@[i] EXCEPT !.val = W.farr[g].m_data[i].val]]]

\* *i = *j : the element i of g is read and assigned to the element i of f
CopyElement(W, f, g, i) ==
    LET src == W.farr[g].m_data[i]
        W1 == ArrayAssign(W, f, i, src.val)
    IN IF src.st = "live" THEN W1 ELSE [W1 EXCEPT !.fault = @ \cup {"read_dead"}]

\* *i = std::move(*j)
MoveElement(W, f, g, i) ==
    LET W1 == CopyElement(W, f, g, i)
    IN [W1 EXCEPT !.farr[g].m_data[i] = AfterMove(@)]

RECURSIVE CopyEach(_, _, _, _)
\* while (i != this->end()) *i++ = *j++;
CopyEach(W, f, g, i) ==
    IF i > N THEN W ELSE CopyEach(CopyElement(W, f, g, i), f, g, i + 1)

RECURSIVE MoveEach(_, _, _, _)
\* while (i != this->end()) *i++ = std::move(*j++);
MoveEach(W, f, g, i) ==
    IF i > N THEN W ELSE MoveEach(MoveElement(W, f, g, i), f, g, i + 1)

\* array::seek_and_destroy
seek_and_destroy(W, f) == DestroyEach(W, f, 1)

\* array::array(const array&)
array_ctor_copy(W, f, g) ==
    IF scalar THEN memcpy(Members(W, f), f, g) ELSE CopyEach(Members(W, f), f, g, 1)

\* array::array(const std::array<T, N>&), the argument holding the values s
array_ctor_std(W, f, s) ==
    [Members(W, f) EXCEPT !.farr[f].m_data = [i \in 1..N |-> LiveSlot(s[i])]]

\* the steps of a move out of g into f, after f is ready to receive
MoveFrom(W, f, g) ==
    IF scalar
    THEN memset(memcpy(W, f, g), g, 0, N, 0)
    ELSE DestroyEach(MoveEach(W, f, g, 1), g, 1)

\* array::array(array&&)
array_ctor_move(W, f, g) == MoveFrom(Members(W, f), f, g)

\* array::operator=(const array&)
array_copy_assign(W, f, g) ==
    IF scalar THEN memcpy(W, f, g) ELSE CopyEach(seek_and_destroy(W, f), f, g, 1)

\* array::operator=(array&&)
array_move_assign(W, f, g) ==
    IF scalar THEN MoveFrom(W, f, g) ELSE MoveFrom(seek_and_destroy(W, f), f, g)

\* array::~array, defaulted: the N members are destroyed
array_dtor(W, f) ==
    LET W1 == IF scalar THEN W ELSE DestroyEach(W, f, 1)
    IN [W1 EXCEPT !.farr[f] = NoArray]

Constructs(f) == status = "running" /\ ~farr[f].alive
Holds(f) == status = "running" /\ farr[f].alive

DoArrayCtorStd(f, s) ==
    /\ Constructs(f)
    /\ ArrayCommit(array_ctor_std(ArrayWorld, f, s), "array_ctor_std")

DoArrayCtorCopy(f, g) ==
    /\ Constructs(f) /\ farr[g].alive
    /\ ArrayCommit(array_ctor_copy(ArrayWorld, f, g), "array_ctor_copy")

DoArrayCtorMove(f, g) ==
    /\ Constructs(f) /\ farr[g].alive
    /\ ArrayCommit(array_ctor_move(ArrayWorld, f, g), "array_ctor_move")

DoArrayCopyAssign(f, g) ==
    /\ Holds(f) /\ farr[g].alive /\ f # g
    /\ ArrayCommit(array_copy_assign(ArrayWorld, f, g), "array_copy_assign")

DoArrayMoveAssign(f, g) ==
    /\ Holds(f) /\ farr[g].alive /\ f # g
    /\ ArrayCommit(array_move_assign(ArrayWorld, f, g), "array_move_assign")

DoArrayDtor(f) ==
    /\ Holds(f)
    /\ ArrayCommit(array_dtor(ArrayWorld, f), "array_dtor")

\* an instantiation array<T, N> with N >= 1 slots, no object constructed yet
InitFixed ==
    /\ heap = [p \in Blocks |-> FreeBlock]
    /\ arr = [v \in Arrs |-> NoObject]
    /\ farr = [f \in FArrs |-> NoArray]
    /\ status = "running"
    /\ op = "init"
    /\ N \in 1..MaxLen
    /\ scalar \in BOOLEAN
    /\ sizeof_T \in {1, 4}
    /\ argv = <<>>
    /\ harness = NotParsed

NextFixed ==
    \/ \E f \in FArrs, value \in TValues : DoArrayCtorValue(f, value)
    \/ \E f \in FArrs, value \in TValues : DoArrayFill(f, value)
    \/ \E f \in FArrs, s \in [1..N -> Val] : DoArrayCtorStd(f, s)
    \/ \E f \in FArrs, g \in FArrs : DoArrayCtorCopy(f, g)
    \/ \E f \in FArrs, g \in FArrs : DoArrayCtorMove(f, g)
    \/ \E f \in FArrs, g \in FArrs : DoArrayCopyAssign(f, g)
    \/ \E f \in FArrs, g \in FArrs : DoArrayMoveAssign(f, g)
    \/ \E f \in FArrs : DoArrayDtor(f)

SpecFixed == InitFixed /\ [][NextFixed]_vars

\* the values of the N slots of f
Slots(f) == [i \in 1..N |-> farr[f].m_data[i].val]

C23_Step ==
    \A f \in FArrs, value \in TValues :
        DoArrayFill(f, value) \/ DoArrayCtorValue(f, value) =>
            /\ status' = "running"
            /\ Slots(f)' = [i \in 1..N |-> value]

\* C23: fill(value) and array(value) leave every one of the N slots equal to
\* value, for multi-byte scalar types too (fill(5), fill(256) on an array of int).
C23_FillSetsEverySlot == [][C23_Step]_vars

\* every one of the N slots of f holds a live object
AllLive(f) == Len(farr[f].m_data) = N /\ \A i \in 1..N : farr[f].m_data[i].st = "live"

\* the call assigned to no dead slot and destroyed none
OnLiveOnly(W) == W.fault \cap {"assign_dead", "destroy_dead"} = {}

C24_Step ==
    /\ \A f \in FArrs : farr[f].alive' => AllLive(f)'
    /\ \A f \in FArrs, value \in TValues :
           /\ DoArrayCtorValue(f, value) => OnLiveOnly(array_ctor_value(ArrayWorld, f, value))
           /\ DoArrayFill(f, value) => OnLiveOnly(array_fill(ArrayWorld, f, value))
    /\ \A f \in FArrs, g \in FArrs :
           /\ DoArrayCtorCopy(f, g) => OnLiveOnly(array_ctor_copy(ArrayWorld, f, g))
           /\ DoArrayCtorMove(f, g) => OnLiveOnly(array_ctor_move(ArrayWorld, f, g))
           /\ DoArrayCopyAssign(f, g) => OnLiveOnly(array_copy_assign(ArrayWorld, f, g))
           /\ DoArrayMoveAssign(f, g) => OnLiveOnly(array_move_assign(ArrayWorld, f, g))

\* C24: an array<T, N> always holds N live elements: after construction, fill,
\* copy/move construction and copy/move assignment every slot of the target and
\* of the source holds a live object, for scalar and class types T, and no call
\* assigns to or destroys a slot that holds none.
C24_AlwaysNLive == [][C24_Step]_vars

C25_Step ==
    \A f \in FArrs, g \in FArrs :
        DoArrayCtorMove(f, g) \/ DoArrayMoveAssign(f, g) =>
            /\ status' = "running"
            /\ Slots(f)' = Slots(g)
            /\ AllLive(f)'
            /\ AllLive(g)'
            /\ Slots(g)' = [i \in 1..N |-> DefaultT]

\* C25: after a2(std::move(a1)) or a2 = std::move(a1), a2 holds the N values a1
\* held, in order, and every slot of a1 holds an object with the value T()
\* (0 for a scalar T).
C25_MoveResetsSource == [][C25_Step]_vars

(***************************************************************************)
(* array_iterator comparison operators.  They compare the pointers m_ptr;  *)
(* the address of slot off of block blk is taken in a flat address space   *)
(* in which the blocks lie one after the other.                            *)
(***************************************************************************)
Address(it) == it.blk * (MaxCap + MaxLen + 2) + it.off

\* operator== : lhs.m_ptr == rhs.m_ptr
IterEq(lhs, rhs) == Address(lhs) = Address(rhs)

\* operator!= : !(lhs == rhs)
IterNe(lhs, rhs) == ~IterEq(lhs, rhs)

\* operator< : lhs.m_ptr < rhs.m_ptr
IterLt(lhs, rhs) == Address(lhs) < Address(rhs)

\* operator> : rhs < lhs
IterGt(lhs, rhs) == IterLt(rhs, lhs)

\* a faulty operator<= : equality is left out
IterLe_Strict(lhs, rhs) == IterLt(lhs, rhs)

\* operator<= : !(lhs > rhs)
IterLe(lhs, rhs) == ~IterGt(lhs, rhs)

\* operator>= : !(lhs < rhs)
IterGe(lhs, rhs) == ~IterLt(lhs, rhs)

\* the cursors begin() + k, 0 <= k <= len(), into the storage of v
Cursors(v) == {IterPlus(begin(v), k) : k \in 0..len(v)}

OneOf(p, q, r) == (p /\ ~q /\ ~r) \/ (~p /\ q /\ ~r) \/ (~p /\ ~q /\ r)

\* C26: for cursors a and b into the same container exactly one of a < b,
\* a == b, a > b holds, the result depends on the positions only, != is the
\* negation of ==, <= is (< or ==), >= is (> or ==), and
\* begin() <= begin() + k <= end() for every 0 <= k <= length.
C26_CursorOrder ==
    \A v \in Arrs :
        arr[v].alive =>
            /\ \A a \in Cursors(v), b \in Cursors(v) :
                   /\ OneOf(IterLt(a, b), IterEq(a, b), IterGt(a, b))
                   /\ IterLt(a, b) <=> a.off < b.off
                   /\ IterEq(a, b) <=> a.off = b.off
                   /\ IterNe(a, b) <=> ~IterEq(a, b)
                   /\ IterLe(a, b) <=> (IterLt(a, b) \/ IterEq(a, b))
                   /\ IterGe(a, b) <=> (IterGt(a, b) \/ IterEq(a, b))
            /\ \A k \in 0..len(v) :
                   /\ IterLe(begin(v), IterPlus(begin(v), k))
                   /\ IterLe(IterPlus(begin(v), k), end(v))

\* a vector of two elements: three distinct cursors
C26_Witness ==
    /\ arr["a"].alive /\ len("a") = 2
    /\ IterLt(begin("a"), IterPlus(begin("a"), 1))
    /\ IterLt(IterPlus(begin("a"), 1), end("a"))

(***************************************************************************)
(* The command line of the test harness (parser::parse).                   *)
(***************************************************************************)
MaxArgs == 3

\* the terminator of a C string
NUL == "\\0"

\* the string literals of the parser and of its maps, as character arrays
Literal ==
    [usage |-> <<"-", "-", "u", "s", "a", "g", "e">>,
     help |-> <<"-", "-", "h", "e", "l", "p">>,
     h |-> <<"-", "h">>,
     question |-> <<"-", "?">>,
     list |-> <<"-", "-", "l", "i", "s", "t">>,
     brief |-> <<"-", "-", "b", "r", "i", "e", "f">>,
     vector |-> <<"v", "e", "c", "t", "o", "r">>,
     array |-> <<"a", "r", "r", "a", "y">>,
     compare |-> <<"c", "o", "m", "p", "a", "r", "e">>,
     initialization |->
         <<"i", "n", "i", "t", "i", "a", "l", "i", "z", "a", "t", "i", "o", "n">>,
     initialization_std |->
         <<"i", "n", "i", "t", "i", "a", "l", "i", "z", "a", "t", "i", "o", "n",
           "-", "s", "t", "d">>,
     not_implemented |->
         <<"n", "o", "t", "-", "i", "m", "p", "l", "e", "m", "e", "n", "t", "e", "d">>]

\* the options the help message documents as displaying it
HelpOptions == {Literal.usage, Literal.help, Literal.h, Literal.question}

\* the words a command line is made of
ArgWords ==
    HelpOptions \cup {Literal.list, Literal.brief, Literal.vector,
                      Literal.array, Literal.compare, Literal.initialization,
                      Literal.initialization_std, Literal.not_implemented}

CommandLines == UNION {[1..n -> ArgWords] : n \in 0..MaxArgs}

\* the character at position i of a C string, the terminator past its end
CharAt(s, i) == IF i <= Len(s) THEN s[i] ELSE NUL

\* pointer arithmetic s + k on a C string
Advance(s, k) == SubSeq(s, k + 1, Len(s))

\* std::strncmp: 0 when the first n characters (up to a terminator) are equal
RECURSIVE strncmp(_, _, _)
strncmp(lhs, rhs, n) ==
    IF n = 0 THEN 0
    ELSE IF CharAt(lhs, 1) # CharAt(rhs, 1) THEN 1
    ELSE IF CharAt(lhs, 1) = NUL THEN 0
    ELSE strncmp(Advance(lhs, 1), Advance(rhs, 1), n - 1)

\* the callback maps: <test> -> unit test, nullptr for a test without one
vector_callbacks ==
    [t \in {Literal.initialization, Literal.initialization_std, Literal.compare} |->
        IF t = Literal.initialization THEN "initialization"
        ELSE IF t = Literal.initialization_std THEN "initialization_std"
        ELSE "compare"]

array_callbacks == [t \in {Literal.not_implemented} |-> "nullptr"]

containers ==
    [c \in {Literal.vector, Literal.array} |->
        IF c = Literal.vector THEN vector_callbacks ELSE array_callbacks]

\* the condition under which the loop of parse shows the help message
IsHelpArg(arg) ==
    \/ strncmp(arg, Literal.usage, 7) = 0
    \/ strncmp(Advance(arg, 1), Literal.h, 2) = 0
    \/ strncmp(arg, Literal.question, 2) = 0

\* the loop of parse over argv[1 .. argc - 1]: the first optional argument
\* found decides, "none" when there is none
RECURSIVE ScanOptions(_, _)
ScanOptions(args, arg_idx) ==
    IF arg_idx > Len(args) THEN "none"
    ELSE IF IsHelpArg(args[arg_idx]) THEN "help"
    ELSE IF strncmp(args[arg_idx], Literal.list, 6) = 0 THEN "list"
    ELSE IF strncmp(args[arg_idx], Literal.brief, 7) = 0 THEN "brief"
    ELSE ScanOptions(args, arg_idx + 1)

\* the status a parent process sees after std::exit(code)
ExitStatus(code) == code % 256

Exited(shown, stream, code) ==
    [done |-> TRUE, shown |-> shown, stream |-> stream, exited |-> TRUE,
     exit_status |-> ExitStatus(code), run_test |-> "nullptr",
     called |-> "none"]

\* operator[] of a std::map: the mapped value, a default one for a new key
Lookup(map, key, default) == IF key \in DOMAIN map THEN map[key] ELSE default

\* parse returns to main with run_test set to cllbk
Returned(cllbk) ==
    [done |-> TRUE, shown |-> "nothing", stream |-> "none", exited |-> FALSE,
     exit_status |-> 0, run_test |-> cllbk, called |-> "none"]

\* a faulty parse: the callback found is not tested before it is installed
parse_Unchecked(args) ==
    LET argc == Len(args) + 1
        option == ScanOptions(args, 1)
    IN IF option # "none" THEN Exited(option, "stdout", 0)
       ELSE IF argc < 3 THEN Exited("help", "stderr", -1)
       ELSE LET cllbck_map == Lookup(containers, args[1], <<>>)
            IN IF DOMAIN cllbck_map # {}
               THEN Returned(Lookup(cllbck_map, args[2], "nullptr"))
               ELSE Exited("no_container", "stderr", -1)

\* parser::parse(argc, argv), args being argv[1 .. argc - 1]
parse(args) ==
    LET argc == Len(args) + 1
        option == ScanOptions(args, 1)
    IN IF option # "none" THEN Exited(option, "stdout", 0)
       ELSE IF argc < 3 THEN Exited("help", "stderr", -1)
       ELSE LET cllbck_map == Lookup(containers, args[1], <<>>)
            IN IF DOMAIN cllbck_map # {}
               THEN LET cllbk == Lookup(cllbck_map, args[2], "nullptr")
                    IN IF cllbk # "nullptr"
                       THEN Returned(cllbk)
                       ELSE Exited("no_test", "stderr", -1)
               ELSE Exited("no_container", "stderr", -1)

DoParse ==
    /\ ~harness.done
    /\ op' = "parse"
    /\ harness' = parse(argv)
    /\ UNCHANGED <<heap, arr, status, N, scalar, farr, sizeof_T, argv>>

\* the harness started with some command line, no container constructed
InitHarness ==
    /\ heap = [p \in Blocks |-> FreeBlock]
    /\ arr = [v \in Arrs |-> NoObject]
    /\ farr = [f \in FArrs |-> NoArray]
    /\ status = "running"
    /\ op = "init"
    /\ N = 0
    /\ scalar = TRUE
    /\ sizeof_T = 1
    /\ argv \in CommandLines
    /\ harness = NotParsed

\* main after parse has returned: return run_test();  calling an empty
\* std::function throws std::bad_function_call, which nothing catches
DoMain ==
    /\ harness.done /\ ~harness.exited /\ harness.called = "none"
    /\ status = "running"
    /\ op' = "main"
    /\ harness' = [harness EXCEPT !.called = harness.run_test]
    /\ status' = IF harness.run_test = "nullptr" THEN "aborted" ELSE "running"
    /\ UNCHANGED <<heap, arr, N, scalar, farr, sizeof_T, argv>>

NextHarness == DoParse \/ DoMain

SpecHarness == InitHarness /\ [][NextHarness]_vars

\* the command line holds one of the documented help options
AsksForHelp == \E i \in 1..Len(argv) : argv[i] \in HelpOptions

\* C27: when any argument is one of --usage, --help, -h, -?, parse prints the
\* help message to standard output and exits with status 0, whatever the
\* number of arguments and whatever the other arguments are.
C27_Step ==
    DoParse /\ AsksForHelp =>
        /\ harness'.shown = "help"
        /\ harness'.stream = "stdout"
        /\ harness'.exited
        /\ harness'.exit_status = 0

C27_HelpOptionWins == [][C27_Step]_vars

\* no destructor ran on a slot without a live object and no block was released
\* with a live element in it
DestroysOnce(W) == W.fault \cap {"destroy_dead", "release_live"} = {}

C28_Step ==
    \A v \in Arrs :
        ~scalar /\ arr[v].alive /\ len(v) <= capacity(v) =>
            /\ DoPopBack(v) => DestroysOnce(pop_back(World, v))
            /\ DoClear(v) => DestroysOnce(clear(World, v))
            /\ DoDtor(v) => DestroysOnce(dtor(World, v))
            /\ \A idx \in 0..(MaxLen - 1) :
                   idx < len(v) /\ DoErase(v, idx) =>
                       DestroysOnce(erase(World, v, idx))

\* C28: for elements of class type, every operation that ends lifetimes
\* (popBack, clear, erase at the last and at an inner index, destruction)
\* invokes the destructor only on slots that hold a live object and releases
\* the raw block only when no live element remains in it.
C28_DestroyedExactlyOnce == [][C28_Step]_vars

C29_Step ==
    \A v \in Arrs : \A x \in Val :
        /\ DoPushBack(v, x) /\ len(v) <= capacity(v) =>
               /\ len(v) = capacity(v) => expand_to_fit(World, v) > len(v)
               /\ "out_of_block" \notin push_back(World, v, x).fault
               /\ len(v) < capacity(v)'
        /\ DoEmplaceBack(v, x) /\ len(v) <= capacity(v) =>
               /\ len(v) = capacity(v) => expand_to_fit(World, v) > len(v)
               /\ "out_of_block" \notin emplace_back(World, v, x).fault
               /\ len(v) < capacity(v)'

\* C29: in every state, capacity 0 included, pushBack and emplaceBack write a
\* slot whose index is smaller than the capacity of the block installed at the
\* time of the write; when the array is full the growth target is strictly
\* greater than the length, so no element is constructed outside the block.
C29_AppendInsideBlock == [][C29_Step]_vars

C30_Step ==
    \A v \in Arrs :
        DoCopyAssign(v, v) /\ len(v) <= capacity(v) =>
            /\ len(v)' = len(v)
            /\ Elems(v)' = Elems(v)

\* C30: copy-assigning an array to itself leaves it unchanged: the same length
\* and the same elements in the same order as before the assignment.
C30_SelfCopyAssignKeeps == [][C30_Step]_vars

\* W is the state after the storage of o, as it is in the current state, was
\* handed to v: the same block with the same capacity, its slots untouched,
\* and no block allocated that was not allocated before
Transferred(W, v, o) ==
    /\ W.arr[v].m_data = data(o)
    /\ W.arr[v].m_capacity = capacity(o)
    /\ data(o) # NULL => W.heap[data(o)] = heap[data(o)]
    /\ {p \in Blocks : W.heap[p].live} \subseteq {p \in Blocks : heap[p].live}

C31_Step ==
    \A v \in Arrs : \A o \in Arrs \ {v} :
        /\ DoCtorMove(v, o) => Transferred(ctor_move(World, v, o), v, o)
        /\ DoMoveAssign(v, o) /\ len(v) <= capacity(v) /\ len(o) <= capacity(o) =>
               Transferred(move_assign(World, v, o), v, o)

\* C31: move construction and move assignment hand over the source's storage
\* block itself: the target ends with the identical block and capacity, no
\* element of the block is constructed, destroyed or assigned during the
\* transfer, and no new block is allocated.
C31_MoveTransfersBlock == [][C31_Step]_vars

\* in W the vector v still has the block and the capacity it has in the current
\* state, and every element it holds now is the same live element there
SameStorage(W, v) ==
    /\ W.arr[v].m_data = data(v)
    /\ W.arr[v].m_capacity = capacity(v)
    /\ \A i \in 0..(len(v) - 1) :
           InBlock(heap, data(v), i) =>
               W.heap[data(v)].slots[i + 1] = heap[data(v)].slots[i + 1]

\* in W the vector v has a block other than the one it has in the current
\* state, and that one has been released
Reallocated(W, v) ==
    /\ W.arr[v].m_data # NULL
    /\ W.arr[v].m_data # data(v)
    /\ data(v) # NULL => ~W.heap[data(v)].live

C32_Step ==
    \A v \in Arrs :
        /\ \A x \in Val :
               /\ DoPushBack(v, x) =>
                      IF len(v) = capacity(v)
                      THEN Reallocated(push_back(World, v, x), v)
                      ELSE SameStorage(push_back(World, v, x), v)
               /\ DoEmplaceBack(v, x) =>
                      IF len(v) = capacity(v)
                      THEN Reallocated(emplace_back(World, v, x), v)
                      ELSE SameStorage(emplace_back(World, v, x), v)
        /\ \A n \in 0..MaxCap :
               DoResize(v, n) => Reallocated(resize(World, v, n), v)

\* C32: pushBack and emplaceBack reallocate only when length == capacity at the
\* time of the call; otherwise the block, the capacity and the elements already
\* held stay as they are.  Every append that reallocates and every reserve
\* installs a different block and releases the old one.
C32_ReallocatesOnlyWhenFull == [][C32_Step]_vars

C32_Witness ==
    /\ op = "push_back" /\ status = "running"
    /\ len("a") = 3 /\ capacity("a") = 3

\* the unit test registered for exactly <container> c and <test> t, "nullptr"
\* when there is none
Registered(c, t) ==
    IF c = Literal.vector
    THEN IF t = Literal.initialization THEN "initialization"
         ELSE IF t = Literal.initialization_std THEN "initialization_std"
         ELSE IF t = Literal.compare THEN "compare"
         ELSE "nullptr"
    ELSE "nullptr"

C33_Step ==
    /\ DoParse =>
           LET argc == Len(argv) + 1
           IN \/ /\ harness'.exited
                 /\ harness'.exit_status = 0
                 /\ harness'.shown \in {"help", "list", "brief"}
              \/ /\ harness'.exited
                 /\ harness'.exit_status = ExitStatus(-1)
                 /\ \/ argc < 3
                    \/ argv[1] \notin {Literal.vector, Literal.array}
                    \/ Registered(argv[1], argv[2]) = "nullptr"
              \/ /\ ~harness'.exited
                 /\ argc >= 3
                 /\ harness'.run_test # "nullptr"
                 /\ harness'.run_test = Registered(argv[1], argv[2])
    /\ DoMain => harness'.called # "nullptr" /\ status' = "running"

\* C33: parse either ends the process (status 0 after a help, list or brief
\* option; status -1 for fewer than 3 arguments, an unknown container, or a
\* test that is not registered or is registered with a null callback) or
\* returns with run_test set to the non-null unit test registered for exactly
\* the given container and test; main never invokes an empty callback.
C33_ParseExitsOrResolves == [][C33_Step]_vars

C33_Witness ==
    /\ op = "main" /\ harness.called = "compare"
    /\ argv = <<Literal.vector, Literal.compare>>

C34_Step ==
    \A v \in Arrs :
        DoToggleRestrictive(v)
            /\ arr[v].m_mem_policy \in {NORMAL, PolicyNot(NORMAL)} =>
                LET before == arr[v].m_mem_policy
                    after == arr[v].m_mem_policy'
                IN /\ plcy_normal(after) # plcy_restrictive(after)
                   /\ plcy_restrictive(after) # plcy_restrictive(before)
                   /\ after = IF plcy_restrictive(after) THEN RESTRICTIVE ELSE NORMAL
                   /\ PolicyNot(after) = before

\* C34: the expansion policy has two complementary states.  Starting from the
\* constructed value, every toggle_restrictive() flips plcy_restrictive(),
\* leaves exactly one of plcy_normal() and plcy_restrictive() true, stores
\* policy_flags::RESTRICTIVE when restrictive and policy_flags::NORMAL when
\* normal, and a second toggle restores the value.
C34_ToggleComplements == [][C34_Step]_vars

(***************************************************************************)
(* Element types of more than one byte: the sizes given to the allocator.  *)
(***************************************************************************)
\* one vector of an instantiation with sizeof (T) of 1 (char) or 4 (int)
InitSized ==
    /\ heap = [p \in Blocks |-> FreeBlock]
    /\ arr = [v \in Arrs |-> NoObject]
    /\ farr = [f \in FArrs |-> NoArray]
    /\ status = "running"
    /\ op = "init"
    /\ N \in Hints
    /\ scalar \in BOOLEAN
    /\ sizeof_T \in {1, 4}
    /\ argv = <<>>
    /\ harness = NotParsed

NextSized ==
    \/ NextBasic
    \/ \E n \in 0..MaxCap : DoResize("a", n)
    \/ DoShrinkToFit("a")

SpecSized == InitSized /\ [][NextSized]_vars

C35_Step ==
    \A v \in Arrs :
        /\ DoDtor(v) => "size_mismatch" \notin dtor(World, v).fault
        /\ \A n \in 0..MaxCap :
               DoResize(v, n) => "size_mismatch" \notin resize(World, v, n).fault

\* C35: every raw block is released with the byte size it was allocated with:
\* the size given to the sized deallocation in resize and in the destructor is
\* sizeof (T) * capacity of the block released, whatever sizeof (T) is.
C35_SizedDeleteMatches == [][C35_Step]_vars

====
